---- MODULE Spec2Model ----
(***************************************************************************)
(* MojiNav navigation core (popey/vibelympics).                            *)
(*                                                                         *)
(* The repository holds two frontends of the same app:                     *)
(*   round_1/frontend/src/App.tsx            (lines 1-724, the final App)  *)
(*   round_1_no_tessl/frontend/src/App.jsx                                 *)
(* Both are modelled.  The variable `frontend` says which one is running;  *)
(* the variables and actions of App.jsx carry the prefix nt_ where the     *)
(* name would clash with App.tsx.                                          *)
(*                                                                         *)
(* Geography: every point of a run lies on one meridian, so a GeoPoint is  *)
(* its offset in metres along that meridian.  On a meridian the Haversine  *)
(* formula reduces to R * |dLat|, i.e. the absolute difference of offsets. *)
(* Time is Date.now() in milliseconds.                                     *)
(***************************************************************************)
EXTENDS Integers, Sequences, FiniteSets, TLC

\* ---------------------------------------------------------------- bounds
T0 == 20000            \* Date.now() when the page loads
MaxElapsed == 11000    \* the clock is followed for this many ms after T0
MaxFetches == 2        \* fetch() calls in flight that the model follows

\* ------------------------------------------------------ program constants
ARRIVAL_THRESHOLD == 20        \* distToDest < 20
STEP_THRESHOLD == 6            \* distToStep < 6
OFF_ROUTE_TSX == 30            \* App.tsx: nearestDist > 30
OFF_ROUTE_JSX == 10            \* App.jsx: distToRoute > 10
RECALC_DEBOUNCE == 10000       \* now - lastRecalc > 10000
OFF_ROUTE_THRESHOLD == 10      \* documented: "more than 5-10 meters away"

\* ------------------------------------------------------------ input sets
NoPoint == 0 - 1               \* null Location / null SearchResult
NoRoute == 0                   \* null Route
NoWatch == 0                   \* watchIdRef.current === null

Destinations == {200}          \* search results (points of interest)
StartPositions == {0}          \* fixes getCurrentPosition can report
Positions == {102, 150, 180, 190}    \* fixes watchPosition can report
Delays == {0, 5000, 11000}           \* ms between two fixes

\* Routes the routing service can answer with.  coordinates are the
\* geometry vertices, way_points index into them (0-based, as in the JSON),
\* lat is the step position App.jsx reads.  The second one ends on the road
\* 10 m short of the point of interest.  The last one is malformed: its
\* steps list is empty.
RouteTable ==
  << [coordinates |-> <<0, 100, 104, 200>>,
      steps |-> << [way_points |-> <<0, 1>>, lat |-> 100],
                   [way_points |-> <<1, 2>>, lat |-> 104],
                   [way_points |-> <<2, 3>>, lat |-> 200] >>],
     [coordinates |-> <<150, 190>>,
      steps |-> << [way_points |-> <<0, 1>>, lat |-> 190] >>],
     [coordinates |-> <<150, 200>>,
      steps |-> << >>] >>

RouteIds == 1..Len(RouteTable)

\* ------------------------------------------------- GeometryKernel (pure)
\* App.tsx calculateDistance: Haversine, here between two points of the
\* same meridian, in metres.
calculateDistance(lat1, lat2) == IF lat2 >= lat1 THEN lat2 - lat1 ELSE lat1 - lat2

\* App.tsx findNearestDistanceToRoute: the loop keeps the running minimum,
\* starting from Infinity (never returned: every route has a vertex).
RECURSIVE MinDistFrom(_, _, _, _)
MinDistFrom(loc, coords, i, minDist) ==
  IF i > Len(coords) THEN minDist
  ELSE LET dist == calculateDistance(loc, coords[i])
       IN MinDistFrom(loc, coords, i + 1,
                      IF minDist = NoPoint \/ dist < minDist THEN dist ELSE minDist)

findNearestDistanceToRoute(loc, coords) == MinDistFrom(loc, coords, 1, NoPoint)

\* The same function off the meridian.  Angles are whole degrees; sines and
\* cosines are in hundredths, `a` in units of 1e-8, `c` in units of 1e-4 rad
\* (atan2(sqrt a, sqrt(1 - a)) is arcsin(sqrt a), taken to first order), and
\* the result is in metres.
EarthRadius == 6371000

Latitudes == {0, 20, 40, 60}
Longitudes == {0, 20, 40, 60}
LatLngs == Latitudes \X Longitudes

\* Math.sin(d / 2) for a difference of d degrees.
SinHalf(d) ==
  LET m == IF d < 0 THEN 0 - d ELSE d
      v == CASE m = 0 -> 0 [] m = 20 -> 17 [] m = 40 -> 34 [] m = 60 -> 50
  IN IF d < 0 THEN 0 - v ELSE v

\* Math.cos of a latitude in degrees.
Cos(lat) == CASE lat = 0 -> 100 [] lat = 20 -> 94 [] lat = 40 -> 77 [] lat = 60 -> 50

\* Math.sqrt, rounded down.
RECURSIVE SqrtBetween(_, _, _)
SqrtBetween(x, lo, hi) ==
  IF lo = hi THEN lo
  ELSE LET mid == (lo + hi + 1) \div 2
       IN IF mid * mid <= x THEN SqrtBetween(x, mid, hi) ELSE SqrtBetween(x, lo, mid - 1)

Sqrt(x) == SqrtBetween(x, 0, 10000)

calculateDistanceLatLng_cosOfFirst(lat1, lng1, lat2, lng2) ==
  LET R == EarthRadius
      sinLat == SinHalf(lat2 - lat1)
      sinLng == SinHalf(lng2 - lng1)
      a == sinLat * sinLat * 10000 + Cos(lat1) * Cos(lat1) * sinLng * sinLng
      c == 2 * Sqrt(a)
  IN ((R \div 1000) * c) \div 10

calculateDistanceLatLng(lat1, lng1, lat2, lng2) ==
  LET R == EarthRadius
      sinLat == SinHalf(lat2 - lat1)
      sinLng == SinHalf(lng2 - lng1)
      a == sinLat * sinLat * 10000 + Cos(lat1) * Cos(lat2) * sinLng * sinLng
      c == 2 * Sqrt(a)
  IN ((R \div 1000) * c) \div 10

\* ------------------------------------------------------------- variables
VARIABLES
  frontend,            \* "round_1" (App.tsx) or "round_1_no_tessl" (App.jsx)
  \* --- the browser
  now,                 \* Date.now()
  geoWatches,          \* navigator.geolocation: the registered watchPosition callbacks
  fetches,             \* fetch() calls awaiting their response, oldest first
  geoPending,          \* a getCurrentPosition call awaits its callback
  \* --- what the UI is told, and the history the properties speak about
  emitted,             \* events signalled while handling the last callback
  session,             \* "none", "navigating", or "arrived" once Arrived was signalled
  issuedAt,            \* the times at which the session issued recalculation requests
  reaction,            \* the callback handled last, currentStepIndex before it, and
                       \* the route it carried
  measured,            \* the arguments and results of the last calls of the
                       \* distance function, both ways round
  \* --- App.tsx (useState / useRef cells)
  view, location, searchResults, selectedDestination, route, currentStepIndex,
  watchIdRef, lastRecalcTimeRef,
  \* --- App.jsx (useState / useRef cells)
  appState, userLocation, nt_searchResults, nt_selectedDestination, nt_route,
  nt_currentStepIndex, isRecalculating, nt_watchIdRef, lastRecalcRef,
  watchCleanup,        \* the position watch effect has a cleanup registered
  watchDeps, navDeps   \* the committed render changed a dependency of the watch /
                       \* navigation effect, which has not run yet

envVars == <<frontend, now, geoWatches, fetches, geoPending, emitted, session, issuedAt,
             reaction, measured>>
tsxVars == <<view, location, searchResults, selectedDestination, route,
             currentStepIndex, watchIdRef, lastRecalcTimeRef>>
jsxVars == <<appState, userLocation, nt_searchResults, nt_selectedDestination, nt_route,
             nt_currentStepIndex, isRecalculating, nt_watchIdRef, lastRecalcRef,
             watchCleanup, watchDeps, navDeps>>
vars == <<envVars, tsxVars, jsxVars>>

\* Two points whose distance has not been taken yet.
Unmeasured(a, b) == [a |-> a, b |-> b, ab |-> NoPoint, ba |-> NoPoint]

Remove(seq, i) == SubSeq(seq, 1, i - 1) \o SubSeq(seq, i + 1, Len(seq))

Fetch(kind, origin, destination) ==
  [kind |-> kind, origin |-> origin, destination |-> destination]

\* watchPosition returns an id that no registered watch uses.
FreshWatchId(watches) == CHOOSE id \in 1..(Cardinality(watches) + 1) :
                           \A w \in watches : w.id # id

clearWatch(watches, id) == {w \in watches : w.id # id}

Handled(to, stepIndex, data) ==
  reaction' = [to |-> to, stepIndex |-> stepIndex, data |-> data, point |-> NoPoint,
               overtook |-> FALSE]

\* What the continuation of the initial route request is recorded as: the
\* service refused (429), failed (non-OK response or network error), or
\* answered.
RouteResponse(outcome) ==
  CASE outcome = "429" -> "routeRateLimited"
    [] outcome \in {"not_ok", "throw"} -> "routeFailed"
    [] OTHER -> "other"

\* The callback handled is the success callback of watchPosition, called
\* with a fix at `point`.
HandledFix(stepIndex, point) ==
  reaction' = [to |-> "position", stepIndex |-> stepIndex, data |-> NoRoute,
               point |-> point, overtook |-> FALSE]

\* The callback handled is the continuation of recalculateRoute after its
\* await, for the request at place i of the pending fetches; overtook says
\* that a recalculation request issued earlier is still unanswered.
HandledResponse(to, stepIndex, data, i) ==
  reaction' = [to |-> to, stepIndex |-> stepIndex, data |-> data, point |-> NoPoint,
               overtook |-> \E j \in 1..(i - 1) : fetches[j].kind = "recalc"]

\* ============================================================== App.tsx
\* Which branch of App's render is on screen (lines 462-721).
Screen ==
  CASE view = "loading" -> "loading"
    [] view = "location_error" -> "location_error"
    [] view = "network_error" -> "network_error"
    [] view = "rate_limited" -> "rate_limited"
    [] view \in {"searching", "recalculating"} -> "searching"
    [] view = "no_results" -> "no_results"
    [] view = "settings" -> "settings"
    [] view = "arrived" -> "arrived"
    [] view = "results" /\ location # NoPoint /\ searchResults # {} -> "results"
    [] view = "navigating" /\ location # NoPoint /\ route # NoRoute
         /\ selectedDestination # NoPoint -> "navigation"
    [] OTHER -> "grid"

\* State of a freshly loaded App.tsx (useState / useRef initial values).
tsxInit ==
  /\ view = "loading"
  /\ location = NoPoint
  /\ searchResults = {}
  /\ selectedDestination = NoPoint
  /\ route = NoRoute
  /\ currentStepIndex = 0
  /\ watchIdRef = NoWatch
  /\ lastRecalcTimeRef = 0

\* A handler of App.tsx that signals nothing and leaves the session alone.
tsxQuiet ==
  /\ emitted' = <<>>
  /\ Handled("other", currentStepIndex, NoRoute)
  /\ UNCHANGED <<frontend, measured, now, session, issuedAt, jsxVars>>

\* initialize, after `await fetch('/api/health')`: ok is response.ok (FALSE
\* also stands for the fetch throwing), hasGeolocation is navigator.geolocation.
initialize(i, ok, hasGeolocation) ==
  /\ frontend = "round_1"
  /\ i \in DOMAIN fetches /\ fetches[i].kind = "health"
  /\ fetches' = Remove(fetches, i)
  /\ IF ~ok THEN view' = "network_error" /\ UNCHANGED geoPending
     ELSE IF ~hasGeolocation THEN view' = "location_error" /\ UNCHANGED geoPending
     ELSE geoPending' = TRUE /\ UNCHANGED view
  /\ tsxQuiet
  /\ UNCHANGED <<geoWatches, location, searchResults, selectedDestination, route,
                 currentStepIndex, watchIdRef, lastRecalcTimeRef>>

\* getCurrentPosition success callback (initialize 231-236, retryLocation 448-452).
getCurrentPositionSuccess(loc) ==
  /\ frontend = "round_1" /\ geoPending
  /\ geoPending' = FALSE
  /\ location' = loc
  /\ view' = "grid"
  /\ tsxQuiet
  /\ UNCHANGED <<geoWatches, fetches, searchResults, selectedDestination, route,
                 currentStepIndex, watchIdRef, lastRecalcTimeRef>>

\* getCurrentPosition error callback (237-240, 453).
getCurrentPositionError ==
  /\ frontend = "round_1" /\ geoPending
  /\ geoPending' = FALSE
  /\ view' = "location_error"
  /\ tsxQuiet
  /\ UNCHANGED <<geoWatches, fetches, location, searchResults, selectedDestination,
                 route, currentStepIndex, watchIdRef, lastRecalcTimeRef>>

retryLocation ==
  /\ frontend = "round_1" /\ Screen = "location_error"
  /\ view' = "loading"
  /\ geoPending' = TRUE
  /\ tsxQuiet
  /\ UNCHANGED <<geoWatches, fetches, location, searchResults, selectedDestination,
                 route, currentStepIndex, watchIdRef, lastRecalcTimeRef>>

\* The network_error button: window.location.reload().  The page, its
\* pending callbacks and its position watches are gone; App mounts afresh.
reload ==
  /\ frontend = "round_1" /\ Screen = "network_error"
  /\ view' = "loading"
  /\ location' = NoPoint
  /\ searchResults' = {}
  /\ selectedDestination' = NoPoint
  /\ route' = NoRoute
  /\ currentStepIndex' = 0
  /\ watchIdRef' = NoWatch
  /\ lastRecalcTimeRef' = 0
  /\ geoPending' = FALSE
  /\ fetches' = << Fetch("health", NoPoint, NoPoint) >>
  /\ geoWatches' = {}
  /\ emitted' = <<>>
  /\ session' = "none"
  /\ issuedAt' = <<>>
  /\ Handled("other", 0, NoRoute)
  /\ UNCHANGED <<frontend, measured, now, jsxVars>>

openSettings ==
  /\ frontend = "round_1" /\ Screen = "grid"
  /\ view' = "settings"
  /\ tsxQuiet
  /\ UNCHANGED <<geoWatches, fetches, geoPending, location, searchResults,
                 selectedDestination, route, currentStepIndex, watchIdRef,
                 lastRecalcTimeRef>>

closeSettings ==
  /\ frontend = "round_1" /\ Screen = "settings"
  /\ view' = "grid"
  /\ tsxQuiet
  /\ UNCHANGED <<geoWatches, fetches, geoPending, location, searchResults,
                 selectedDestination, route, currentStepIndex, watchIdRef,
                 lastRecalcTimeRef>>

\* handleAmenitySelect up to its await.
handleAmenitySelect ==
  /\ frontend = "round_1" /\ Screen = "grid"
  /\ location # NoPoint
  /\ Len(fetches) < MaxFetches
  /\ view' = "searching"
  /\ fetches' = Append(fetches, Fetch("search", NoPoint, NoPoint))
  /\ tsxQuiet
  /\ UNCHANGED <<geoWatches, geoPending, location, searchResults, selectedDestination,
                 route, currentStepIndex, watchIdRef, lastRecalcTimeRef>>

\* handleAmenitySelect after its await; outcome is what /api/search did.
handleAmenitySelectResponse(i, outcome) ==
  /\ frontend = "round_1"
  /\ i \in DOMAIN fetches /\ fetches[i].kind = "search"
  /\ fetches' = Remove(fetches, i)
  /\ CASE outcome = "429" -> view' = "rate_limited" /\ UNCHANGED searchResults
       [] outcome \in {"not_ok", "throw"} ->
            view' = "network_error" /\ UNCHANGED searchResults
       [] outcome = "count_0" -> view' = "no_results" /\ UNCHANGED searchResults
       [] outcome = "results" -> searchResults' = Destinations /\ view' = "results"
  /\ tsxQuiet
  /\ UNCHANGED <<geoWatches, geoPending, location, selectedDestination, route,
                 currentStepIndex, watchIdRef, lastRecalcTimeRef>>

\* handleDestinationSelect up to its await.
handleDestinationSelect(result) ==
  /\ frontend = "round_1" /\ Screen = "results"
  /\ result \in searchResults
  /\ location # NoPoint
  /\ Len(fetches) < MaxFetches
  /\ selectedDestination' = result
  /\ view' = "searching"
  /\ fetches' = Append(fetches, Fetch("route", location, result))
  /\ tsxQuiet
  /\ UNCHANGED <<geoWatches, geoPending, location, searchResults, route,
                 currentStepIndex, watchIdRef, lastRecalcTimeRef>>

\* stopWatch that leaves the watch registered.
stopWatch_keeps(watches, ref) == watches

\* `if (watchIdRef.current !== null) clearWatch(watchIdRef.current)`
\* (lines 341-343, 354-357, 433-436): the watches left registered.
stopWatch(watches, ref) == IF ref # NoWatch THEN clearWatch(watches, ref) ELSE watches

\* startPositionWatch that registers the new watch without clearing the one
\* watchIdRef holds.
startPositionWatch_keepsPrevious(destination, currentRoute) ==
  LET id == FreshWatchId(geoWatches)
  IN /\ geoWatches' = geoWatches \cup {[id |-> id, destination |-> destination,
                                        currentRoute |-> currentRoute]}
     /\ watchIdRef' = id

\* startPositionWatch(destination, currentRoute), lines 340-345 and 398: the
\* registered callback closes over destination and currentRoute.
startPositionWatch(destination, currentRoute) ==
  LET kept == stopWatch(geoWatches, watchIdRef)
      id == FreshWatchId(kept)
  IN /\ geoWatches' = kept \cup {[id |-> id, destination |-> destination,
                                  currentRoute |-> currentRoute]}
     /\ watchIdRef' = id

\* handleDestinationSelect whose catch path still starts the position watch.
handleDestinationSelectResponse_failureStartsWatch(i, outcome, routeData) ==
  /\ frontend = "round_1"
  /\ i \in DOMAIN fetches /\ fetches[i].kind = "route"
  /\ fetches' = Remove(fetches, i)
  /\ CASE outcome = "429" ->
            /\ view' = "rate_limited"
            /\ UNCHANGED <<route, currentStepIndex, geoWatches, watchIdRef,
                           session, issuedAt>>
       [] outcome \in {"not_ok", "throw"} ->
            /\ view' = "network_error"
            /\ startPositionWatch(fetches[i].destination, route)
            /\ UNCHANGED <<route, currentStepIndex, session, issuedAt>>
       [] outcome = "ok" ->
            /\ route' = routeData
            /\ currentStepIndex' = 0
            /\ view' = "navigating"
            /\ startPositionWatch(fetches[i].destination, routeData)
            /\ session' = "navigating"
            /\ issuedAt' = <<>>
  /\ emitted' = <<>>
  /\ Handled(RouteResponse(outcome), currentStepIndex, NoRoute)
  /\ UNCHANGED <<frontend, measured, now, geoPending, location, searchResults,
                 selectedDestination, lastRecalcTimeRef, jsxVars>>

\* handleDestinationSelect after its await.
handleDestinationSelectResponse(i, outcome, routeData) ==
  /\ frontend = "round_1"
  /\ i \in DOMAIN fetches /\ fetches[i].kind = "route"
  /\ fetches' = Remove(fetches, i)
  /\ CASE outcome = "429" ->
            /\ view' = "rate_limited"
            /\ UNCHANGED <<route, currentStepIndex, geoWatches, watchIdRef,
                           session, issuedAt>>
       [] outcome \in {"not_ok", "throw"} ->
            /\ view' = "network_error"
            /\ UNCHANGED <<route, currentStepIndex, geoWatches, watchIdRef,
                           session, issuedAt>>
       [] outcome = "ok" ->
            /\ route' = routeData
            /\ currentStepIndex' = 0
            /\ view' = "navigating"
            /\ startPositionWatch(fetches[i].destination, routeData)
            /\ session' = "navigating"
            /\ issuedAt' = <<>>
  /\ emitted' = <<>>
  /\ Handled(RouteResponse(outcome), currentStepIndex, NoRoute)
  /\ UNCHANGED <<frontend, measured, now, geoPending, location, searchResults,
                 selectedDestination, lastRecalcTimeRef, jsxVars>>

\* The updater passed to setCurrentStepIndex (lines 363-377).
stepUpdater(prevIndex, newLoc, currentRoute) ==
  LET steps == RouteTable[currentRoute].steps
      coordinates == RouteTable[currentRoute].coordinates
  IN IF prevIndex + 1 \in DOMAIN steps /\ Len(steps[prevIndex + 1].way_points) > 1
     THEN LET way_points == steps[prevIndex + 1].way_points
              endIdx == way_points[Len(way_points)]
          IN IF endIdx + 1 \in DOMAIN coordinates
                /\ calculateDistance(newLoc, coordinates[endIdx + 1]) < STEP_THRESHOLD
                /\ prevIndex < Len(steps) - 1
             THEN prevIndex + 1
             ELSE prevIndex
     ELSE prevIndex

\* hasArrived with half the arrival radius.
hasArrived_within10(newLoc, destination) ==
  calculateDistance(newLoc, destination) < 10

\* Lines 351-352.
hasArrived(newLoc, destination) ==
  calculateDistance(newLoc, destination) < ARRIVAL_THRESHOLD

\* shouldRecalculate with a debounce one second longer.
shouldRecalculate_debounceLonger(newLoc, currentRoute, t, lastRecalc) ==
  /\ findNearestDistanceToRoute(newLoc, RouteTable[currentRoute].coordinates)
       > OFF_ROUTE_TSX
  /\ t - lastRecalc > RECALC_DEBOUNCE + 1000

\* shouldRecalculate without the debounce.
shouldRecalculate_noDebounce(newLoc, currentRoute, t, lastRecalc) ==
  findNearestDistanceToRoute(newLoc, RouteTable[currentRoute].coordinates)
    > OFF_ROUTE_TSX

\* Lines 380-383: off-route and the debounce has elapsed.
shouldRecalculate(newLoc, currentRoute, t, lastRecalc) ==
  /\ findNearestDistanceToRoute(newLoc, RouteTable[currentRoute].coordinates)
       > OFF_ROUTE_TSX
  /\ t - lastRecalc > RECALC_DEBOUNCE

\* The success callback of watchPosition (lines 346-391), for the watch w,
\* delivering the fix newLoc dt ms after the clock was last read.
onPosition(w, newLoc, dt) ==
  /\ frontend = "round_1"
  /\ w \in geoWatches
  /\ now + dt <= T0 + MaxElapsed
  /\ now' = now + dt
  /\ location' = newLoc
  /\ IF hasArrived(newLoc, w.destination)
     THEN /\ geoWatches' = stopWatch(geoWatches, watchIdRef)
          /\ watchIdRef' = NoWatch
          /\ view' = "arrived"
          /\ emitted' = << "Arrived" >>
          /\ session' = "arrived"
          /\ UNCHANGED <<currentStepIndex, lastRecalcTimeRef, fetches, issuedAt>>
     ELSE LET newIndex == stepUpdater(currentStepIndex, newLoc, w.currentRoute)
              recalc == shouldRecalculate(newLoc, w.currentRoute, now', lastRecalcTimeRef)
          IN /\ currentStepIndex' = newIndex
             /\ recalc => Len(fetches) < MaxFetches
             /\ IF recalc
                THEN /\ lastRecalcTimeRef' = now'
                     /\ view' = "recalculating"
                     /\ fetches' = Append(fetches, Fetch("recalc", newLoc, w.destination))
                     /\ issuedAt' = Append(issuedAt, now')
                ELSE UNCHANGED <<lastRecalcTimeRef, view, fetches, issuedAt>>
             /\ emitted' = (IF newIndex # currentStepIndex
                            THEN << "StepAdvanced" >> ELSE <<>>)
                           \o (IF recalc THEN << "RecalculationStarted" >> ELSE <<>>)
             /\ UNCHANGED <<geoWatches, watchIdRef, session>>
  /\ HandledFix(currentStepIndex, newLoc)
  /\ UNCHANGED <<frontend, measured, geoPending, searchResults, selectedDestination, route,
                 jsxVars>>

\* onPositionError that gives up the watch.
onPositionError_clearsWatch(w) ==
  /\ frontend = "round_1"
  /\ w \in geoWatches
  /\ geoWatches' = geoWatches \ {w}
  /\ emitted' = <<>>
  /\ Handled("positionError", currentStepIndex, NoRoute)
  /\ UNCHANGED <<frontend, measured, now, fetches, geoPending, session, issuedAt,
                 tsxVars, jsxVars>>

\* The error callback of watchPosition (lines 392-395): a console warning.
onPositionError(w) ==
  /\ frontend = "round_1"
  /\ w \in geoWatches
  /\ emitted' = <<>>
  /\ Handled("positionError", currentStepIndex, NoRoute)
  /\ UNCHANGED <<frontend, measured, now, geoWatches, fetches, geoPending, session, issuedAt,
                 tsxVars, jsxVars>>

\* afterRecalculation whose failure branch drops the route.
afterRecalculation_dropsRoute(outcome, routeData) ==
  IF outcome = "ok"
  THEN [route |-> routeData, currentStepIndex |-> 0, view |-> "navigating",
        emitted |-> << "RouteUpdated" >>]
  ELSE [route |-> NoRoute, currentStepIndex |-> currentStepIndex, view |-> "navigating",
        emitted |-> << "RecalculationFailed" >>]

\* afterRecalculation whose success branch keeps currentStepIndex.
afterRecalculation_keepsStep(outcome, routeData) ==
  IF outcome = "ok"
  THEN [route |-> routeData, currentStepIndex |-> currentStepIndex,
        view |-> "navigating", emitted |-> << "RouteUpdated" >>]
  ELSE [route |-> route, currentStepIndex |-> currentStepIndex, view |-> "navigating",
        emitted |-> << "RecalculationFailed" >>]

\* afterRecalculation whose failure branches leave the view as it is.
afterRecalculation_failureKeepsView(outcome, routeData) ==
  IF outcome = "ok"
  THEN [route |-> routeData, currentStepIndex |-> 0, view |-> "navigating",
        emitted |-> << "RouteUpdated" >>]
  ELSE [route |-> route, currentStepIndex |-> currentStepIndex, view |-> view,
        emitted |-> << "RecalculationFailed" >>]

\* recalculateRoute after its await (lines 415-428): the cells it sets.
afterRecalculation(outcome, routeData) ==
  IF outcome = "ok"
  THEN [route |-> routeData, currentStepIndex |-> 0, view |-> "navigating",
        emitted |-> << "RouteUpdated" >>]
  ELSE [route |-> route, currentStepIndex |-> currentStepIndex, view |-> "navigating",
        emitted |-> << "RecalculationFailed" >>]

\* recalculateRoute after its await; the part before the await is the fetch
\* issued inside onPosition.
recalculateRoute(i, outcome, routeData) ==
  /\ frontend = "round_1"
  /\ i \in DOMAIN fetches /\ fetches[i].kind = "recalc"
  /\ fetches' = Remove(fetches, i)
  /\ LET set == afterRecalculation(outcome, routeData)
     IN /\ route' = set.route
        /\ currentStepIndex' = set.currentStepIndex
        /\ view' = set.view
        /\ emitted' = set.emitted
  /\ HandledResponse(IF outcome = "ok" THEN "recalcOk" ELSE "recalcFailed",
                     currentStepIndex, IF outcome = "ok" THEN routeData ELSE NoRoute, i)
  /\ UNCHANGED <<frontend, measured, now, geoWatches, geoPending, session, issuedAt, location,
                 searchResults, selectedDestination, watchIdRef, lastRecalcTimeRef,
                 jsxVars>>

\* goBack with no button for it in the no_results view.
goBack_notFromNoResults ==
  /\ frontend = "round_1"
  /\ Screen \in {"rate_limited", "arrived", "results", "navigation"}
  /\ geoWatches' = stopWatch(geoWatches, watchIdRef)
  /\ watchIdRef' = NoWatch
  /\ searchResults' = {}
  /\ selectedDestination' = NoPoint
  /\ route' = NoRoute
  /\ view' = "grid"
  /\ emitted' = <<>>
  /\ session' = "none"
  /\ issuedAt' = <<>>
  /\ Handled("cancel", currentStepIndex, NoRoute)
  /\ UNCHANGED <<frontend, measured, now, fetches, geoPending, location, currentStepIndex,
                 lastRecalcTimeRef, jsxVars>>

goBack ==
  /\ frontend = "round_1"
  /\ Screen \in {"rate_limited", "no_results", "arrived", "results", "navigation"}
  /\ geoWatches' = stopWatch(geoWatches, watchIdRef)
  /\ watchIdRef' = NoWatch
  /\ searchResults' = {}
  /\ selectedDestination' = NoPoint
  /\ route' = NoRoute
  /\ view' = "grid"
  /\ emitted' = <<>>
  /\ session' = "none"
  /\ issuedAt' = <<>>
  /\ Handled("cancel", currentStepIndex, NoRoute)
  /\ UNCHANGED <<frontend, measured, now, fetches, geoPending, location, currentStepIndex,
                 lastRecalcTimeRef, jsxVars>>

tsxNext ==
  \/ \E i \in DOMAIN fetches, ok \in BOOLEAN, hasGeolocation \in BOOLEAN :
       initialize(i, ok, hasGeolocation)
  \/ \E loc \in StartPositions : getCurrentPositionSuccess(loc)
  \/ getCurrentPositionError
  \/ retryLocation
  \/ reload
  \/ openSettings
  \/ closeSettings
  \/ handleAmenitySelect
  \/ \E i \in DOMAIN fetches, outcome \in {"429", "not_ok", "throw", "count_0", "results"} :
       handleAmenitySelectResponse(i, outcome)
  \/ \E result \in Destinations : handleDestinationSelect(result)
  \/ \E i \in DOMAIN fetches, routeData \in RouteIds :
       handleDestinationSelectResponse(i, "ok", routeData)
  \/ \E i \in DOMAIN fetches, outcome \in {"429", "not_ok", "throw"} :
       handleDestinationSelectResponse(i, outcome, NoRoute)
  \/ \E w \in geoWatches, newLoc \in Positions, dt \in Delays : onPosition(w, newLoc, dt)
  \/ \E w \in geoWatches : onPositionError(w)
  \/ \E i \in DOMAIN fetches, routeData \in RouteIds : recalculateRoute(i, "ok", routeData)
  \/ \E i \in DOMAIN fetches, outcome \in {"not_ok", "throw"} :
       recalculateRoute(i, outcome, NoRoute)
  \/ goBack

\* ============================================================== App.jsx
\* haversineDistance between two points of the same meridian, in metres.
haversineDistance(lat1, lat2) == IF lat2 >= lat1 THEN lat2 - lat1 ELSE lat1 - lat2

\* The same function off the meridian, in the units of calculateDistanceLatLng.
haversineDistanceLatLon(lat1, lon1, lat2, lon2) ==
  LET R == EarthRadius
      deltaPhi == SinHalf(lat2 - lat1)
      deltaLambda == SinHalf(lon2 - lon1)
      a == deltaPhi * deltaPhi * 10000 + Cos(lat1) * Cos(lat2) * deltaLambda * deltaLambda
      c == 2 * Sqrt(a)
  IN ((R \div 1000) * c) \div 10

RECURSIVE distanceToRouteFrom(_, _, _, _)
distanceToRouteFrom(lat, geometry, i, minDist) ==
  IF i > Len(geometry) THEN minDist
  ELSE LET d == haversineDistance(lat, geometry[i])
       IN distanceToRouteFrom(lat, geometry, i + 1,
                              IF minDist = NoPoint \/ d < minDist THEN d ELSE minDist)

distanceToRoute(lat, geometry) == distanceToRouteFrom(lat, geometry, 1, NoPoint)

\* State of a freshly loaded App.jsx (useState / useRef initial values).
jsxInit ==
  /\ appState = "loading_location"
  /\ userLocation = NoPoint
  /\ nt_searchResults = {}
  /\ nt_selectedDestination = NoPoint
  /\ nt_route = NoRoute
  /\ nt_currentStepIndex = 0
  /\ isRecalculating = FALSE
  /\ nt_watchIdRef = NoWatch
  /\ lastRecalcRef = 0
  /\ watchCleanup = FALSE
  /\ watchDeps = FALSE
  /\ navDeps = FALSE

\* The cells the two effects read and write, gathered so that the effects
\* of one commit can be run one after the other on them.
nt_cells ==
  [appState |-> appState, userLocation |-> userLocation,
   selectedDestination |-> nt_selectedDestination, route |-> nt_route,
   currentStepIndex |-> nt_currentStepIndex, isRecalculating |-> isRecalculating,
   watchIdRef |-> nt_watchIdRef, lastRecalcRef |-> lastRecalcRef,
   watchCleanup |-> watchCleanup, geoWatches |-> geoWatches, fetches |-> fetches,
   emitted |-> emitted, session |-> session, issuedAt |-> issuedAt]

\* "Watch position during navigation" effect (lines 165-192), run because
\* appState or route changed: the cleanup of its previous run, then its body.
nt_watchEffect(S) ==
  LET cleaned == IF S.watchCleanup /\ S.watchIdRef # NoWatch
                 THEN [S EXCEPT !.geoWatches = clearWatch(@, S.watchIdRef)]
                 ELSE S
  IN IF cleaned.appState # "navigating" \/ cleaned.route = NoRoute
     THEN [cleaned EXCEPT !.watchCleanup = FALSE]
     ELSE LET id == FreshWatchId(cleaned.geoWatches)
          IN [cleaned EXCEPT
                !.geoWatches = @ \cup {[id |-> id, destination |-> NoPoint,
                                        currentRoute |-> NoRoute]},
                !.watchIdRef = id,
                !.watchCleanup = TRUE]

\* recalculateRoute up to its await (lines 319-335), called at time t by the
\* navigation effect with the cells of the render it belongs to.
nt_recalculateRouteCall(S, t) ==
  IF S.selectedDestination = NoPoint \/ S.userLocation = NoPoint THEN S
  ELSE [S EXCEPT
          !.isRecalculating = TRUE,
          !.fetches = Append(@, Fetch("recalc", S.userLocation, S.selectedDestination)),
          !.emitted = Append(@, "RecalculationStarted"),
          !.issuedAt = Append(@, t)]

\* Lines 200-204.
nt_hasArrived(lat, destination) ==
  haversineDistance(lat, destination) < ARRIVAL_THRESHOLD

\* Lines 211-216: the current step exists, its point is near and it is not
\* the last step.
nt_stepCompleted(lat, steps, index) ==
  /\ index + 1 \in DOMAIN steps
  /\ haversineDistance(lat, steps[index + 1].lat) < STEP_THRESHOLD
  /\ index < Len(steps) - 1

\* Lines 223-228: off-route, no recalculation pending, debounce elapsed.
nt_shouldRecalculate(lat, geometry, recalculating, t, lastRecalc) ==
  /\ distanceToRoute(lat, geometry) > OFF_ROUTE_JSX
  /\ ~recalculating
  /\ t - lastRecalc > RECALC_DEBOUNCE

\* The navigation effect recording the time of every off-route evaluation,
\* whether or not it issues a request.
nt_navigationEffect_stampsEvaluation(S, t) ==
  IF S.appState # "navigating" \/ S.route = NoRoute \/ S.userLocation = NoPoint
       \/ S.selectedDestination = NoPoint
  THEN S
  ELSE
    IF nt_hasArrived(S.userLocation, S.selectedDestination)
    THEN [S EXCEPT !.appState = "arrived",
                   !.emitted = Append(@, "Arrived"),
                   !.session = "arrived"]
    ELSE
      LET S1 == IF nt_stepCompleted(S.userLocation, RouteTable[S.route].steps,
                                    S.currentStepIndex)
                THEN [S EXCEPT !.currentStepIndex = @ + 1,
                               !.emitted = Append(@, "StepAdvanced")]
                ELSE S
      IN IF nt_shouldRecalculate(S.userLocation, RouteTable[S.route].coordinates,
                                 S.isRecalculating, t, S.lastRecalcRef)
         THEN nt_recalculateRouteCall([S1 EXCEPT !.lastRecalcRef = t], t)
         ELSE IF distanceToRoute(S.userLocation, RouteTable[S.route].coordinates)
                   > OFF_ROUTE_JSX
              THEN [S1 EXCEPT !.lastRecalcRef = t]
              ELSE S1

\* "Navigation logic" effect (lines 195-234), run at time t because one of
\* its dependencies changed.
nt_navigationEffect(S, t) ==
  IF S.appState # "navigating" \/ S.route = NoRoute \/ S.userLocation = NoPoint
       \/ S.selectedDestination = NoPoint
  THEN S
  ELSE
    IF nt_hasArrived(S.userLocation, S.selectedDestination)
    THEN [S EXCEPT !.appState = "arrived",
                   !.emitted = Append(@, "Arrived"),
                   !.session = "arrived"]
    ELSE
      LET S1 == IF nt_stepCompleted(S.userLocation, RouteTable[S.route].steps,
                                    S.currentStepIndex)
                THEN [S EXCEPT !.currentStepIndex = @ + 1,
                               !.emitted = Append(@, "StepAdvanced")]
                ELSE S
      IN IF nt_shouldRecalculate(S.userLocation, RouteTable[S.route].coordinates,
                                 S.isRecalculating, t, S.lastRecalcRef)
         THEN nt_recalculateRouteCall([S1 EXCEPT !.lastRecalcRef = t], t)
         ELSE S1

\* React has committed the last render and run its effects: the next
\* callback (a click, a fix, a response) can be handled.
nt_idle == ~watchDeps /\ ~navDeps

\* After a render is committed React runs the effects whose dependencies
\* changed in it: the watch effect (appState, route), then the navigation
\* effect.  What the effects set is rendered next, and may run them again.
nt_passiveEffects ==
  /\ frontend = "round_1_no_tessl"
  /\ watchDeps \/ navDeps
  /\ LET S1 == IF watchDeps THEN nt_watchEffect(nt_cells) ELSE nt_cells
         S2 == IF navDeps THEN nt_navigationEffect(S1, now) ELSE S1
         appChanged == S2.appState # S1.appState
     IN /\ Len(S2.fetches) <= Len(fetches) \/ Len(S2.fetches) <= MaxFetches
        /\ appState' = S2.appState
        /\ nt_currentStepIndex' = S2.currentStepIndex
        /\ isRecalculating' = S2.isRecalculating
        /\ nt_watchIdRef' = S2.watchIdRef
        /\ lastRecalcRef' = S2.lastRecalcRef
        /\ watchCleanup' = S2.watchCleanup
        /\ geoWatches' = S2.geoWatches
        /\ fetches' = S2.fetches
        /\ emitted' = S2.emitted
        /\ session' = S2.session
        /\ issuedAt' = S2.issuedAt
        /\ watchDeps' = appChanged
        /\ navDeps' = \/ appChanged
                      \/ S2.currentStepIndex # S1.currentStepIndex
                      \/ S2.isRecalculating # S1.isRecalculating
  /\ UNCHANGED <<frontend, measured, now, geoPending, reaction, userLocation, nt_searchResults,
                 nt_selectedDestination, nt_route, tsxVars>>

\* setAppState(to) as the only state change of a handler.
nt_setAppState(to) ==
  /\ appState' = to
  /\ watchDeps' = (appState # to)
  /\ navDeps' = (appState # to)
  /\ emitted' = <<>>
  /\ Handled("other", nt_currentStepIndex, NoRoute)
  /\ UNCHANGED <<frontend, measured, now, geoWatches, session, issuedAt, userLocation,
                 nt_selectedDestination, nt_route, nt_currentStepIndex, isRecalculating,
                 nt_watchIdRef, lastRecalcRef, watchCleanup, tsxVars>>

\* getCurrentPosition success callback (lines 148-155, 364-370).
nt_getCurrentPositionSuccess(loc) ==
  /\ frontend = "round_1_no_tessl" /\ nt_idle /\ geoPending
  /\ geoPending' = FALSE
  /\ userLocation' = loc
  /\ appState' = "grid"
  /\ watchDeps' = (appState # "grid")
  /\ navDeps' = TRUE
  /\ emitted' = <<>>
  /\ Handled("other", nt_currentStepIndex, NoRoute)
  /\ UNCHANGED <<frontend, measured, now, geoWatches, fetches, session, issuedAt,
                 nt_searchResults, nt_selectedDestination, nt_route,
                 nt_currentStepIndex, isRecalculating, nt_watchIdRef, lastRecalcRef,
                 watchCleanup, tsxVars>>

\* getCurrentPosition error callback (lines 156-159, 371).
nt_getCurrentPositionError ==
  /\ frontend = "round_1_no_tessl" /\ nt_idle /\ geoPending
  /\ geoPending' = FALSE
  /\ nt_setAppState("location_error")
  /\ UNCHANGED <<fetches, nt_searchResults>>

nt_retryLocation ==
  /\ frontend = "round_1_no_tessl" /\ nt_idle /\ appState = "location_error"
  /\ geoPending' = TRUE
  /\ nt_setAppState("loading_location")
  /\ UNCHANGED <<fetches, nt_searchResults>>

nt_openSettings ==
  /\ frontend = "round_1_no_tessl" /\ nt_idle /\ appState = "grid"
  /\ nt_setAppState("settings")
  /\ UNCHANGED <<fetches, geoPending, nt_searchResults>>

nt_closeSettings ==
  /\ frontend = "round_1_no_tessl" /\ nt_idle /\ appState = "settings"
  /\ nt_setAppState("grid")
  /\ UNCHANGED <<fetches, geoPending, nt_searchResults>>

\* searchAmenity up to its await.
searchAmenity ==
  /\ frontend = "round_1_no_tessl" /\ nt_idle /\ appState = "grid"
  /\ userLocation # NoPoint
  /\ Len(fetches) < MaxFetches
  /\ fetches' = Append(fetches, Fetch("search", NoPoint, NoPoint))
  /\ nt_setAppState("searching")
  /\ UNCHANGED <<geoPending, nt_searchResults>>

\* searchAmenity after its await.
searchAmenityResponse(i, outcome) ==
  /\ frontend = "round_1_no_tessl" /\ nt_idle
  /\ i \in DOMAIN fetches /\ fetches[i].kind = "search"
  /\ fetches' = Remove(fetches, i)
  /\ CASE outcome = "429" ->
            nt_setAppState("rate_limited") /\ UNCHANGED nt_searchResults
       [] outcome \in {"not_ok", "throw", "length_0"} ->
            nt_setAppState("search_error") /\ UNCHANGED nt_searchResults
       [] outcome = "results" ->
            nt_setAppState("map_results") /\ nt_searchResults' = Destinations
  /\ UNCHANGED geoPending

\* getRoute up to its await.
getRoute(destination) ==
  /\ frontend = "round_1_no_tessl" /\ nt_idle /\ appState = "map_results"
  /\ destination \in nt_searchResults
  /\ userLocation # NoPoint
  /\ Len(fetches) < MaxFetches
  /\ nt_selectedDestination' = destination
  /\ appState' = "loading_route"
  /\ fetches' = Append(fetches, Fetch("route", userLocation, destination))
  /\ watchDeps' = TRUE
  /\ navDeps' = TRUE
  /\ emitted' = <<>>
  /\ Handled("other", nt_currentStepIndex, NoRoute)
  /\ UNCHANGED <<frontend, measured, now, geoWatches, geoPending, session, issuedAt, userLocation,
                 nt_searchResults, nt_route, nt_currentStepIndex, isRecalculating,
                 nt_watchIdRef, lastRecalcRef, watchCleanup, tsxVars>>

\* getRoute after its await; dt ms have passed since the clock was last read.
getRouteResponse(i, outcome, data, dt) ==
  /\ frontend = "round_1_no_tessl" /\ nt_idle
  /\ i \in DOMAIN fetches /\ fetches[i].kind = "route"
  /\ now + dt <= T0 + MaxElapsed
  /\ now' = now + dt
  /\ fetches' = Remove(fetches, i)
  /\ CASE outcome = "429" ->
            /\ appState' = "rate_limited"
            /\ UNCHANGED <<nt_route, nt_currentStepIndex, session, issuedAt>>
       [] outcome \in {"not_ok", "throw"} ->
            /\ appState' = "search_error"
            /\ UNCHANGED <<nt_route, nt_currentStepIndex, session, issuedAt>>
       [] outcome = "ok" ->
            /\ nt_route' = data
            /\ nt_currentStepIndex' = 0
            /\ appState' = "navigating"
            /\ session' = "navigating"
            /\ issuedAt' = <<>>
  /\ watchDeps' = TRUE
  /\ navDeps' = TRUE
  /\ emitted' = <<>>
  /\ Handled(RouteResponse(outcome), nt_currentStepIndex, NoRoute)
  /\ UNCHANGED <<frontend, measured, geoWatches, geoPending, userLocation, nt_searchResults,
                 nt_selectedDestination, isRecalculating, nt_watchIdRef, lastRecalcRef,
                 watchCleanup, tsxVars>>

\* nt_onPosition that keeps the displayed position while a recalculation is
\* pending.
nt_onPosition_dropsWhileRecalculating(w, newLoc, dt) ==
  /\ frontend = "round_1_no_tessl" /\ nt_idle
  /\ w \in geoWatches
  /\ now + dt <= T0 + MaxElapsed
  /\ now' = now + dt
  /\ userLocation' = IF isRecalculating THEN userLocation ELSE newLoc
  /\ watchDeps' = FALSE
  /\ navDeps' = TRUE
  /\ emitted' = <<>>
  /\ HandledFix(nt_currentStepIndex, newLoc)
  /\ UNCHANGED <<frontend, measured, geoWatches, fetches, geoPending, session, issuedAt, appState,
                 nt_searchResults, nt_selectedDestination, nt_route, nt_currentStepIndex,
                 isRecalculating, nt_watchIdRef, lastRecalcRef, watchCleanup, tsxVars>>

\* The success callback of watchPosition (lines 171-178), dt ms after the
\* clock was last read.
nt_onPosition(w, newLoc, dt) ==
  /\ frontend = "round_1_no_tessl" /\ nt_idle
  /\ w \in geoWatches
  /\ now + dt <= T0 + MaxElapsed
  /\ now' = now + dt
  /\ userLocation' = newLoc
  /\ watchDeps' = FALSE
  /\ navDeps' = TRUE
  /\ emitted' = <<>>
  /\ HandledFix(nt_currentStepIndex, newLoc)
  /\ UNCHANGED <<frontend, measured, geoWatches, fetches, geoPending, session, issuedAt, appState,
                 nt_searchResults, nt_selectedDestination, nt_route, nt_currentStepIndex,
                 isRecalculating, nt_watchIdRef, lastRecalcRef, watchCleanup, tsxVars>>

\* The error callback of watchPosition (lines 179-182): a console warning.
nt_onPositionError(w) ==
  /\ frontend = "round_1_no_tessl" /\ nt_idle
  /\ w \in geoWatches
  /\ emitted' = <<>>
  /\ Handled("positionError", nt_currentStepIndex, NoRoute)
  /\ UNCHANGED <<frontend, measured, now, geoWatches, fetches, geoPending, session, issuedAt,
                 tsxVars, jsxVars>>

\* recalculateRoute after its await (lines 337-347): the cells it sets.
nt_afterRecalculation(outcome, data) ==
  IF outcome = "ok"
  THEN [route |-> data, currentStepIndex |-> 0, isRecalculating |-> FALSE,
        emitted |-> << "RouteUpdated" >>]
  ELSE [route |-> nt_route, currentStepIndex |-> nt_currentStepIndex,
        isRecalculating |-> FALSE, emitted |-> << "RecalculationFailed" >>]

\* recalculateRoute after its await, dt ms after the clock was last read.
nt_recalculateRoute(i, outcome, data, dt) ==
  /\ frontend = "round_1_no_tessl" /\ nt_idle
  /\ i \in DOMAIN fetches /\ fetches[i].kind = "recalc"
  /\ now + dt <= T0 + MaxElapsed
  /\ now' = now + dt
  /\ fetches' = Remove(fetches, i)
  /\ LET set == nt_afterRecalculation(outcome, data)
     IN /\ nt_route' = set.route
        /\ nt_currentStepIndex' = set.currentStepIndex
        /\ isRecalculating' = set.isRecalculating
        /\ emitted' = set.emitted
        /\ watchDeps' = (outcome = "ok")
        /\ navDeps' = \/ outcome = "ok"
                      \/ set.currentStepIndex # nt_currentStepIndex
                      \/ set.isRecalculating # isRecalculating
  /\ HandledResponse(IF outcome = "ok" THEN "recalcOk" ELSE "recalcFailed",
                     nt_currentStepIndex, IF outcome = "ok" THEN data ELSE NoRoute, i)
  /\ UNCHANGED <<frontend, measured, geoWatches, geoPending, session, issuedAt, appState,
                 userLocation, nt_searchResults, nt_selectedDestination, nt_watchIdRef,
                 lastRecalcRef, watchCleanup, tsxVars>>

goToGrid ==
  /\ frontend = "round_1_no_tessl" /\ nt_idle
  /\ \/ appState \in {"search_error", "rate_limited", "map_results", "arrived"}
     \/ appState = "navigating" /\ nt_route # NoRoute
  /\ appState' = "grid"
  /\ nt_searchResults' = {}
  /\ nt_selectedDestination' = NoPoint
  /\ nt_route' = NoRoute
  /\ nt_currentStepIndex' = 0
  /\ watchDeps' = TRUE
  /\ navDeps' = TRUE
  /\ emitted' = <<>>
  /\ session' = "none"
  /\ issuedAt' = <<>>
  /\ Handled("cancel", nt_currentStepIndex, NoRoute)
  /\ UNCHANGED <<frontend, measured, now, geoWatches, fetches, geoPending, userLocation,
                 isRecalculating, nt_watchIdRef, lastRecalcRef, watchCleanup, tsxVars>>

jsxNext ==
  \/ nt_passiveEffects
  \/ \E loc \in StartPositions : nt_getCurrentPositionSuccess(loc)
  \/ nt_getCurrentPositionError
  \/ nt_retryLocation
  \/ nt_openSettings
  \/ nt_closeSettings
  \/ searchAmenity
  \/ \E i \in DOMAIN fetches, outcome \in {"429", "not_ok", "throw", "length_0", "results"} :
       searchAmenityResponse(i, outcome)
  \/ \E destination \in Destinations : getRoute(destination)
  \/ \E i \in DOMAIN fetches, data \in RouteIds, dt \in Delays :
       getRouteResponse(i, "ok", data, dt)
  \/ \E i \in DOMAIN fetches, outcome \in {"429", "not_ok", "throw"}, dt \in Delays :
       getRouteResponse(i, outcome, NoRoute, dt)
  \/ \E w \in geoWatches, newLoc \in Positions, dt \in Delays : nt_onPosition(w, newLoc, dt)
  \/ \E w \in geoWatches : nt_onPositionError(w)
  \/ \E i \in DOMAIN fetches, data \in RouteIds, dt \in Delays :
       nt_recalculateRoute(i, "ok", data, dt)
  \/ \E i \in DOMAIN fetches, outcome \in {"not_ok", "throw"}, dt \in Delays :
       nt_recalculateRoute(i, outcome, NoRoute, dt)
  \/ goToGrid

\* ============================================================ the system
\* Either frontend, freshly loaded: App.tsx awaits fetch('/api/health')
\* (lines 205-246), App.jsx awaits getCurrentPosition (lines 138-162).
Init ==
  /\ frontend \in {"round_1", "round_1_no_tessl"}
  /\ now = T0
  /\ geoWatches = {}
  /\ emitted = <<>>
  /\ session = "none"
  /\ issuedAt = <<>>
  /\ reaction = [to |-> "other", stepIndex |-> 0, data |-> NoRoute, point |-> NoPoint,
                 overtook |-> FALSE]
  /\ measured = Unmeasured(<<0, 0>>, <<0, 0>>)
  /\ tsxInit
  /\ jsxInit
  /\ geoPending = (frontend = "round_1_no_tessl")
  /\ fetches = IF frontend = "round_1" THEN << Fetch("health", NoPoint, NoPoint) >> ELSE <<>>

Next == tsxNext \/ jsxNext

Spec == Init /\ [][Next]_vars

\* ------------------------------------------------------- with scheduling
\* The routing service answers a pending recalculation request.
RecalculationAnswered ==
  \/ \E i \in DOMAIN fetches, routeData \in RouteIds : recalculateRoute(i, "ok", routeData)
  \/ \E i \in DOMAIN fetches, outcome \in {"not_ok", "throw"} :
       recalculateRoute(i, outcome, NoRoute)
  \/ \E i \in DOMAIN fetches, data \in RouteIds, dt \in Delays :
       nt_recalculateRoute(i, "ok", data, dt)
  \/ \E i \in DOMAIN fetches, outcome \in {"not_ok", "throw"}, dt \in Delays :
       nt_recalculateRoute(i, outcome, NoRoute, dt)

\* Every pending recalculation request is answered in the end: the answer
\* is handled between two other callbacks, however many fixes arrive.  React
\* runs the effects of a committed render before it handles anything else.
LiveSpec == Spec /\ SF_vars(RecalculationAnswered) /\ WF_vars(nt_passiveEffects)

\* ------------------------------------------------ the distance function alone
\* The page is loaded and nothing else happens; two points are chosen and
\* the running frontend's distance function is applied to them both ways.
DistanceLatLng(a, b) ==
  IF frontend = "round_1" THEN calculateDistanceLatLng(a[1], a[2], b[1], b[2])
  ELSE haversineDistanceLatLon(a[1], a[2], b[1], b[2])

GeometryInit ==
  /\ frontend \in {"round_1", "round_1_no_tessl"}
  /\ now = T0
  /\ geoWatches = {}
  /\ emitted = <<>>
  /\ session = "none"
  /\ issuedAt = <<>>
  /\ reaction = [to |-> "other", stepIndex |-> 0, data |-> NoRoute, point |-> NoPoint,
                 overtook |-> FALSE]
  /\ measured \in {Unmeasured(a, b) : a \in LatLngs, b \in LatLngs}
  /\ tsxInit
  /\ jsxInit
  /\ geoPending = (frontend = "round_1_no_tessl")
  /\ fetches = IF frontend = "round_1" THEN << Fetch("health", NoPoint, NoPoint) >> ELSE <<>>

measure ==
  /\ measured.ab = NoPoint
  /\ measured' = [measured EXCEPT !.ab = DistanceLatLng(measured.a, measured.b),
                                  !.ba = DistanceLatLng(measured.b, measured.a)]
  /\ UNCHANGED <<frontend, now, geoWatches, fetches, geoPending, emitted, session,
                 issuedAt, reaction, tsxVars, jsxVars>>

GeometryNext == measure

GeometrySpec == GeometryInit /\ [][GeometryNext]_vars

\* ===================================================== the navigation state
\* The cells of whichever frontend is running.
Phase == IF frontend = "round_1" THEN view ELSE appState
StepIndex == IF frontend = "round_1" THEN currentStepIndex ELSE nt_currentStepIndex
ActiveRoute == IF frontend = "round_1" THEN route ELSE nt_route
LastLocation == IF frontend = "round_1" THEN location ELSE userLocation
Destination == IF frontend = "round_1" THEN selectedDestination ELSE nt_selectedDestination

\* The phase is NAVIGATING: App.tsx shows view 'navigating'; App.jsx shows
\* appState NAVIGATING without the isRecalculating indicator.
PhaseIsNavigating ==
  IF frontend = "round_1" THEN view = "navigating"
  ELSE appState = "navigating" /\ ~isRecalculating

\* The phase is RECALCULATING: App.tsx shows view 'recalculating'; App.jsx
\* shows appState NAVIGATING with the isRecalculating indicator.
PhaseIsRecalculating ==
  IF frontend = "round_1" THEN view = "recalculating"
  ELSE appState = "navigating" /\ isRecalculating

\* The time of the last issued request, as the running frontend keeps it.
LastRecalculationAt ==
  IF frontend = "round_1" THEN lastRecalcTimeRef ELSE lastRecalcRef

\* The callback handled last has run to completion, effects included.
Settled == frontend = "round_1" \/ nt_idle

\* The recalculation requests awaiting their response.
RecalcsInFlight == {i \in DOMAIN fetches : fetches[i].kind = "recalc"}

\* The route the step and off-route checks of the last fix were run against:
\* App.tsx reads the route its watch callback closed over, App.jsx the
\* route cell.
EvaluatedRoute ==
  IF frontend = "round_1"
  THEN IF geoWatches = {} THEN NoRoute ELSE (CHOOSE w \in geoWatches : TRUE).currentRoute
  ELSE nt_route

\* The off-route test of the running frontend applied to the last fix.
OffRouteByCode ==
  /\ EvaluatedRoute # NoRoute
  /\ IF frontend = "round_1"
     THEN findNearestDistanceToRoute(location, RouteTable[EvaluatedRoute].coordinates)
            > OFF_ROUTE_TSX
     ELSE distanceToRoute(userLocation, RouteTable[EvaluatedRoute].coordinates)
            > OFF_ROUTE_JSX

\* Handling the last callback issued a recalculation request.
Requested == \E k \in DOMAIN emitted : emitted[k] = "RecalculationStarted"

\* The session's requests issued before the last callback was handled.
IssuedBefore ==
  IF Requested THEN SubSeq(issuedAt, 1, Len(issuedAt) - 1) ELSE issuedAt

\* The last callback was a fix of the running session, it did not end in
\* arrival, and its off-route check was not skipped for a pending request.
PositionEvaluated ==
  /\ reaction.to = "position"
  /\ Settled
  /\ session = "navigating"
  /\ geoWatches # {}
  /\ frontend = "round_1_no_tessl" => (Requested \/ ~isRecalculating)

\* The phase was NAVIGATING when the last fix arrived: it still is, or the
\* fix itself issued the only request in flight.
NavigatingBeforeFix ==
  \/ PhaseIsNavigating
  \/ PhaseIsRecalculating /\ Requested /\ Cardinality(RecalcsInFlight) = 1

\* The last fix is within the step threshold of the end point of step
\* `index` of the installed route, and that step is not the last one.
StepEndReached(index) ==
  /\ ActiveRoute # NoRoute
  /\ LET steps == RouteTable[ActiveRoute].steps
         coordinates == RouteTable[ActiveRoute].coordinates
     IN /\ index + 1 \in DOMAIN steps
        /\ LET way_points == steps[index + 1].way_points
               endCoord == coordinates[way_points[Len(way_points)] + 1]
           IN calculateDistance(LastLocation, endCoord) < STEP_THRESHOLD
        /\ index < Len(steps) - 1

\* The end point of the last step of the installed route.
FinalDestination ==
  LET steps == RouteTable[ActiveRoute].steps
      coordinates == RouteTable[ActiveRoute].coordinates
      way_points == steps[Len(steps)].way_points
  IN coordinates[way_points[Len(way_points)] + 1]

\* The last callback was a fix of a session with a destination, which it
\* may have ended in arrival.
FixOfSession ==
  /\ reaction.to = "position"
  /\ Settled
  /\ session \in {"navigating", "arrived"}
  /\ Destination # NoPoint

\* An error view is on screen.
ErrorView ==
  IF frontend = "round_1"
  THEN Screen \in {"location_error", "network_error", "rate_limited", "no_results"}
  ELSE appState \in {"location_error", "search_error", "rate_limited"}

\* The user presses the button of an error view and it is left for the
\* loading view or the grid.
ErrorViewLeft ==
  /\ retryLocation \/ reload \/ goBack \/ nt_retryLocation \/ goToGrid
  /\ Phase' \in {"loading", "loading_location", "grid"}

\* The error view that matches the failure of the initial route request
\* handled last.
RouteErrorView ==
  CASE reaction.to = "routeRateLimited" -> "rate_limited"
    [] reaction.to = "routeFailed" ->
         IF frontend = "round_1" THEN "network_error" ELSE "search_error"

\* This step reloads the page (App.tsx line 491), which constructs every
\* cell anew.
PageReloaded == frontend = "round_1" /\ view = "network_error" /\ view' = "loading"

\* This step handles the response (outcome "ok" or not) of a recalculation.
RecalcOkStep == reaction'.to = "recalcOk" /\ Len(fetches') < Len(fetches)
RecalcFailedStep == reaction'.to = "recalcFailed" /\ Len(fetches') < Len(fetches)

\* ============================================================ properties
\* C1: handling one Position event leaves currentStepIndex where it was or
\* raises it by exactly one, also when the fix is within the step threshold
\* of several consecutive step end points.
C1_StepAtMostOnePerPosition ==
  reaction.to = "position" =>
    StepIndex \in {reaction.stepIndex, reaction.stepIndex + 1}

\* C2: within one navigation session any two recalculation requests are
\* issued at least RECALC_DEBOUNCE ms apart.
C2_RecalcsDebounced ==
  \A i, j \in DOMAIN issuedAt :
    i < j => issuedAt[j] - issuedAt[i] >= RECALC_DEBOUNCE

\* A session has issued two recalculation requests.
C2_TwoRequestsIssued == session = "navigating" /\ Len(issuedAt) = 2

\* C3: at most one recalculation request is in flight at any time.
C3_OneRecalcInFlight == Cardinality(RecalcsInFlight) <= 1

\* C4: once Arrived was emitted in a session, no StepAdvanced,
\* RecalculationStarted or RouteUpdated is emitted in it afterwards: while
\* handling a callback such an event can only precede Arrived.
C4_NoNavigationEventAfterArrived ==
  session = "arrived" =>
    \A k \in DOMAIN emitted :
      emitted[k] \in {"StepAdvanced", "RecalculationStarted", "RouteUpdated"}
        => \E j \in DOMAIN emitted : j > k /\ emitted[j] = "Arrived"

\* C5: ARRIVED is terminal: from arrival until the user ends the session the
\* phase is ARRIVED.
C5_ArrivedIsTerminal == session = "arrived" => Phase = "arrived"

\* C6: when a recalculation request of the running session fails, the route
\* is unchanged, the phase is NAVIGATING again and RecalculationFailed is
\* emitted exactly once.
C6_FailureKeepsRoute ==
  [][(RecalcFailedStep /\ session = "navigating") =>
       /\ ActiveRoute' = ActiveRoute
       /\ PhaseIsNavigating'
       /\ emitted' = << "RecalculationFailed" >>]_vars

\* A recalculation of the running session has failed, after a step advance
\* on the route it leaves in place.
C6_FailureHandled ==
  /\ reaction.to = "recalcFailed"
  /\ session = "navigating"
  /\ emitted = << "RecalculationFailed" >>
  /\ ActiveRoute # NoRoute
  /\ reaction.stepIndex > 0

\* C7: when a successful recalculation response installs a route,
\* currentStepIndex is 0 and the route is the one the response returned,
\* whatever steps were advanced while the request was pending.
C7_RouteUpdateResetsStep ==
  [][RecalcOkStep =>
       /\ StepIndex' = 0
       /\ ActiveRoute' = reaction'.data
       /\ emitted' = << "RouteUpdated" >>]_vars

\* A route was installed by a recalculation that was pending while a step
\* was advanced.
C7_RouteInstalledAfterAdvance ==
  /\ reaction.to = "recalcOk"
  /\ reaction.stepIndex > 0
  /\ emitted = << "RouteUpdated" >>
  /\ StepIndex = 0
  /\ ActiveRoute = reaction.data

\* C8: after the user backs out, the response of a recalculation request that
\* was in flight installs no route, changes no phase and emits no event.
C8_ResultDiscardedAfterCancel ==
  [][((RecalcOkStep \/ RecalcFailedStep) /\ session = "none") =>
       /\ ActiveRoute' = ActiveRoute
       /\ Phase' = Phase
       /\ emitted' = <<>>]_vars

C10_ArrivalDecidedFirst ==
  (/\ reaction.to = "position"
   /\ Settled
   /\ Destination # NoPoint
   /\ calculateDistance(LastLocation, Destination) < ARRIVAL_THRESHOLD)
  => /\ Phase = "arrived"
     /\ StepIndex = reaction.stepIndex
     /\ emitted = << "Arrived" >>

\* Arrival was decided on the first of three steps, none of them completed.
C10_ArrivedOnFirstStep ==
  /\ reaction.to = "position"
  /\ Settled
  /\ emitted = << "Arrived" >>
  /\ StepIndex = 0
  /\ ActiveRoute # NoRoute
  /\ Len(RouteTable[ActiveRoute].steps) = 3

\* C11: in a navigation session currentStepIndex is an index into the steps
\* of the installed route (stated for routes that have steps), also after a
\* recalculation installed a route with fewer steps.
C11_StepIndexInRange ==
  (/\ session = "navigating"
   /\ ActiveRoute # NoRoute
   /\ Len(RouteTable[ActiveRoute].steps) > 0)
  => (0 <= StepIndex /\ StepIndex < Len(RouteTable[ActiveRoute].steps))

C13_DecisionMatchesFormula ==
  PositionEvaluated =>
    (Requested <=>
       /\ OffRouteByCode
       /\ \/ IssuedBefore = <<>>
          \/ now - IssuedBefore[Len(IssuedBefore)] >= RECALC_DEBOUNCE)

\* C14: an off-route evaluation less than RECALC_DEBOUNCE ms (for example
\* 5 s) after the session's last request issues no request, so one request
\* was issued for the two evaluations; an off-route evaluation more than
\* RECALC_DEBOUNCE ms (for example 11 s) after it issues a second one.
C14_DebouncedThenReissued ==
  (PositionEvaluated /\ OffRouteByCode /\ IssuedBefore # <<>>) =>
    LET gap == now - IssuedBefore[Len(IssuedBefore)]
    IN /\ gap < RECALC_DEBOUNCE => (~Requested /\ issuedAt = IssuedBefore)
       /\ gap > RECALC_DEBOUNCE =>
            (Requested /\ issuedAt = Append(IssuedBefore, now))

\* Off-route evaluations 11 s apart have issued two requests.
C14_SecondRequestAfter11s ==
  /\ PositionEvaluated
  /\ OffRouteByCode
  /\ Requested
  /\ Len(issuedAt) = 2
  /\ issuedAt[2] - issuedAt[1] = 11000

\* C15: a fix handled while a recalculation is pending (the phase was
\* RECALCULATING before the fix, not because of it) leaves currentStepIndex
\* and the last recalculation time unchanged and issues no request.
C15_NoEvaluationWhileRecalculating ==
  [][(PhaseIsRecalculating /\ reaction'.to = "position"
        /\ (frontend = "round_1_no_tessl" => ~Requested)) =>
       /\ StepIndex' = StepIndex
       /\ LastRecalculationAt' = LastRecalculationAt
       /\ fetches' = fetches]_vars

\* C16: a session starts with no recorded last recalculation time: once a
\* session has handled an off-route fix it has issued a request, however
\* recently the previous session recalculated.
C16_FirstOffRouteFixRequests ==
  (/\ reaction.to = "position"
   /\ Settled
   /\ session = "navigating"
   /\ geoWatches # {}
   /\ OffRouteByCode)
  => issuedAt # <<>>

\* C17: while the phase is NAVIGATING or RECALCULATING a route and a
\* destination are installed.
C17_RouteWhileNavigating ==
  Phase \in {"navigating", "recalculating"} =>
    (ActiveRoute # NoRoute /\ Destination # NoPoint)

\* C18: after a recalculation failed, a new request is issued only for a
\* later fix: handling the failed response issues none.
C18_NoRequestOnFailure ==
  reaction.to = "recalcFailed" => ~Requested

\* C19: a route whose steps list is empty is never installed, neither at
\* session start nor by a recalculation response.
C19_NoMalformedRouteInstalled ==
  ActiveRoute # NoRoute => Len(RouteTable[ActiveRoute].steps) > 0

\* C20: a fix is classified off-route exactly when its minimum distance
\* over the vertices of the route is greater than OFF_ROUTE_THRESHOLD (10 m):
\* with the debounce out of the way, a request is issued for exactly those
\* fixes.
C20_OffRouteAboveTenMetres ==
  (/\ PositionEvaluated
   /\ EvaluatedRoute # NoRoute
   /\ Requested \/ now - LastRecalculationAt > RECALC_DEBOUNCE)
  => (Requested <=>
        findNearestDistanceToRoute(LastLocation, RouteTable[EvaluatedRoute].coordinates)
          > OFF_ROUTE_THRESHOLD)

\* C21: the distance function is symmetric and zero on identical points:
\* once the two distances between a pair of points are taken, they are equal,
\* and they are 0 when the two points are the same.
C21_DistanceSymmetric ==
  measured.ab # NoPoint =>
    /\ measured.ab = measured.ba
    /\ measured.a = measured.b => measured.ab = 0

\* Two points that differ in latitude and in longitude have been measured.
C21_MeasuredAcross ==
  /\ measured.ab > 0
  /\ measured.a[1] # measured.b[1]
  /\ measured.a[2] # measured.b[2]

\* C22: once a recalculation has installed a route, a fix of the session is
\* evaluated for step completion and off-route distance against the
\* installed route, not against the route the watch was started with.
C22_EvaluatedAgainstInstalledRoute ==
  (/\ reaction.to = "position"
   /\ Settled
   /\ session = "navigating"
   /\ geoWatches # {})
  => EvaluatedRoute = ActiveRoute

\* C23: a fix evaluated while NAVIGATING raises the step index by exactly
\* one if it is less than 6 m from the end point of the current step and
\* that step is not the last one, and leaves the index unchanged otherwise.
C23_StepAdvancesIffEndReached ==
  (/\ reaction.to = "position"
   /\ Settled
   /\ session = "navigating"
   /\ geoWatches # {}
   /\ NavigatingBeforeFix)
  => StepIndex = IF StepEndReached(reaction.stepIndex)
               THEN reaction.stepIndex + 1
               ELSE reaction.stepIndex

\* C24: a fix received while the phase is RECALCULATING, even one within
\* the arrival threshold of the destination, leaves the phase RECALCULATING.
C24_FixKeepsRecalculating ==
  [][(PhaseIsRecalculating /\ reaction'.to = "position") => PhaseIsRecalculating']_vars

\* C25: while the page lives, the last recalculation time changes only in a
\* step that issues a recalculation request, and is then the time of that
\* step; fixes that issue no request and recalculation responses leave it
\* unchanged.
C25_StampOnlyWithRequest ==
  [][(~PageReloaded /\ LastRecalculationAt' # LastRecalculationAt) =>
       /\ Len(fetches') = Len(fetches) + 1
       /\ fetches'[Len(fetches')].kind = "recalc"
       /\ LastRecalculationAt' = now']_vars

\* A second request of a session has been issued and stamped.
C25_SecondRequestStamped ==
  /\ Len(issuedAt) = 2
  /\ Requested
  /\ LastRecalculationAt = issuedAt[2]
  /\ LastRecalculationAt = now

\* C26: when a recalculation request of a running session is pending and the
\* routing service answers, the phase is NAVIGATING again at some later
\* point, unless the session has ended by then.
C26_ReturnsToNavigating ==
  (RecalcsInFlight # {} /\ session = "navigating")
    ~> (PhaseIsNavigating \/ session # "navigating")

\* A failed response has brought a session with no other request pending
\* back to NAVIGATING.
C26_BackToNavigating ==
  /\ reaction.to = "recalcFailed"
  /\ Settled
  /\ session = "navigating"
  /\ RecalcsInFlight = {}
  /\ PhaseIsNavigating

\* C27: a recalculation request is issued while handling a Position event,
\* with the position of that event as origin and the destination of the
\* session as target.
C27_RequestFromTriggeringFix ==
  (Requested /\ Settled) =>
    /\ reaction.to = "position"
    /\ LET request == fetches[Len(fetches)]
       IN /\ request.kind = "recalc"
          /\ request.origin = LastLocation
          /\ request.destination \in Destinations
          /\ Destination # NoPoint => request.destination = Destination

\* C28: a fix ends the session in arrival exactly when it is less than 20 m
\* from the end point of the last step of the installed route; at exactly
\* 20 m or more it does not.
C28_ArrivalByRouteEnd ==
  (FixOfSession /\ ActiveRoute # NoRoute /\ RouteTable[ActiveRoute].steps # <<>>) =>
    (session = "arrived" <=>
       calculateDistance(LastLocation, FinalDestination) < ARRIVAL_THRESHOLD)

\* C29: after a Position event is handled, the readable current position is
\* the point of that event, whatever was delivered before it and whether or
\* not a recalculation is pending.
C29_LocationIsLatestFix ==
  reaction.to = "position" => LastLocation = reaction.point

\* A fix was delivered while a recalculation requested from another point
\* was pending.
C29_FixWhileRecalculating ==
  /\ reaction.to = "position"
  /\ Settled
  /\ PhaseIsRecalculating
  /\ ~Requested
  /\ \E i \in RecalcsInFlight : fetches[i].origin # reaction.point
  /\ LastLocation = reaction.point

\* C30: whenever an error view is on screen (location error, network error,
\* rate limited, no results) the user can press a button that leaves it for
\* the loading view, the grid or a restart of the page.
C30_ErrorViewHasExit == (ErrorView /\ Settled) => ENABLED ErrorViewLeft

\* The no_results view is on screen after a search that found nothing.
C30_NoResultsShown ==
  /\ frontend = "round_1"
  /\ Screen = "no_results"
  /\ ENABLED goBack

\* C31: when the response to the later of two outstanding recalculation
\* requests of a session was handled first, the response to the earlier
\* request, handled next, leaves the installed route as it is.
C31_OlderResponseKeepsRoute ==
  [][(/\ reaction.to = "recalcOk"
      /\ reaction.overtook
      /\ session = "navigating"
      /\ Len(issuedAt) >= 2
      /\ RecalcOkStep)
     => ActiveRoute' = ActiveRoute]_vars

\* C32: in App.tsx, whenever the view is 'navigating' or 'recalculating' a
\* position watch is registered and watchIdRef holds its id.
C32_WatchWhileNavigating ==
  (frontend = "round_1" /\ view \in {"navigating", "recalculating"}) =>
    /\ watchIdRef # NoWatch
    /\ \E w \in geoWatches : w.id = watchIdRef

\* C33: at most one position watch is registered at any time, whatever
\* sessions were started, ended in arrival or cancelled before.
C33_AtMostOneWatch == Cardinality(geoWatches) <= 1

\* A session that follows an earlier session with a recalculation has one
\* watch registered.
C33_OneWatchInLaterSession ==
  /\ session = "navigating"
  /\ Settled
  /\ issuedAt = <<>>
  /\ LastRecalculationAt > 0
  /\ Cardinality(geoWatches) = 1

====
